---- MODULE Spec2Model ----
(***************************************************************************)
(* facefix-backend: an HTTP relay that accepts an image and a style        *)
(* preset, runs one background task per accepted job against the           *)
(* Replicate prediction API and serves job records and result files.       *)
(*                                                                         *)
(* Two revisions of src/index.js are modelled:                             *)
(*   revision = "file"   : lines 1-383, job records are JSON files that    *)
(*                         live in the results directory;                  *)
(*   revision = "memory" : lines 384-559, job records live in a Map.       *)
(*                                                                         *)
(* Node runs one handler at a time: an action is one run of a handler or   *)
(* of a task continuation, from the event that starts it to the next       *)
(* await on real I/O (an HTTP fetch, a timer) or to its end.               *)
(***************************************************************************)
EXTENDS Integers, Sequences, FiniteSets, TLC

(***************************************************************************)
(* Bounds of the model.                                                    *)
(***************************************************************************)
MaxJobs == 2        \* jobs created in one run
MaxRequests == 3    \* HTTP requests handled in one run
MaxClock == 1       \* the millisecond clock saturates here
MaxCount == 2       \* counters of create and download calls saturate here
MaxPolls == 1       \* the counter of polls saturates here
MaxProbes == 1      \* POSTs in one run of the preset probes

(***************************************************************************)
(* File contents and HTTP bodies: [enc, payload], enc "json" (payload: the  *)
(* members of the JSON text, in order) or "binary" (payload: the bytes).   *)
(* JavaScript values: <<typeof, value>>.  A string is held either as a     *)
(* TLA+ string or, where the code looks at its characters, as the sequence *)
(* of its characters.  An object is the sequence of its <<key, value>>     *)
(* pairs in insertion order.                                               *)
(***************************************************************************)
Str(s) == <<"string", s>>
Bool(b) == <<"boolean", b>>
Num(n) == <<"number", n>>
Obj(pairs) == <<"object", pairs>>
Arr(elems) == <<"array", elems>>
Null == <<"null", "null">>
Undefined == <<"undefined", "undefined">>

TypeOf(v) == v[1]
ValueOf(v) == v[2]

HasField(obj, k) == \E i \in 1..Len(obj) : obj[i][1] = k
Field(obj, k) ==
    IF HasField(obj, k)
    THEN obj[CHOOSE i \in 1..Len(obj) : obj[i][1] = k][2]
    ELSE Undefined

(* JSON.stringify of an object: its own properties in insertion order,     *)
(* those whose value is undefined left out.                                *)
JSONstringify(obj) ==
    [enc |-> "json",
     payload |-> SelectSeq(obj, LAMBDA p : TypeOf(p[2]) # "undefined")]

(* JSON.parse: the object the text describes; of two members with one key  *)
(* the later one stays.                                                    *)
JSONparse(data) ==
    LET t == data.payload
        Last(i) == \A k \in (i + 1)..Len(t) : t[k][1] # t[i][1]
        F[i \in 0..Len(t)] ==
            IF i = 0 THEN <<>>
            ELSE IF Last(i) THEN Append(F[i - 1], t[i]) ELSE F[i - 1]
    IN F[Len(t)]

(***************************************************************************)
(* Strings the code inspects character by character.                       *)
(***************************************************************************)
UpperCase == <<"A", "B", "C", "D", "E", "F", "G", "H", "I", "J", "K", "L", "M",
               "N", "O", "P", "Q", "R", "S", "T", "U", "V", "W", "X", "Y", "Z">>
LowerCase == <<"a", "b", "c", "d", "e", "f", "g", "h", "i", "j", "k", "l", "m",
               "n", "o", "p", "q", "r", "s", "t", "u", "v", "w", "x", "y", "z">>
WhiteSpace == {" ", "\t", "\n"}

charToLowerCase(c) ==
    IF \E i \in 1..Len(UpperCase) : UpperCase[i] = c
    THEN LowerCase[CHOOSE i \in 1..Len(UpperCase) : UpperCase[i] = c]
    ELSE c

charToUpperCase(c) ==
    IF \E i \in 1..Len(LowerCase) : LowerCase[i] = c
    THEN UpperCase[CHOOSE i \in 1..Len(LowerCase) : LowerCase[i] = c]
    ELSE c

toLowerCase(s) == [i \in 1..Len(s) |-> charToLowerCase(s[i])]

RECURSIVE trimStart(_)
trimStart(s) ==
    IF s # <<>> /\ Head(s) \in WhiteSpace THEN trimStart(Tail(s)) ELSE s

RECURSIVE trimEnd(_)
trimEnd(s) ==
    IF s # <<>> /\ s[Len(s)] \in WhiteSpace
    THEN trimEnd(SubSeq(s, 1, Len(s) - 1))
    ELSE s

trim(s) == trimEnd(trimStart(s))

(***************************************************************************)
(* Preset resolution (file-backed revision).                               *)
(***************************************************************************)
kOriginal == <<"o", "r", "i", "g", "i", "n", "a", "l">>
kOrig == <<"o", "r", "i", "g">>
kHollywood == <<"h", "o", "l", "l", "y", "w", "o", "o", "d">>
kCool == <<"c", "o", "o", "l">>
kModel == <<"m", "o", "d", "e", "l">>
kElegant == <<"e", "l", "e", "g", "a", "n", "t">>
kFierce == <<"f", "i", "e", "r", "c", "e">>
kNatural == <<"n", "a", "t", "u", "r", "a", "l">>
nullKey == <<"null">>

(* A resolution that does not trim the white space around the preset.     *)
normalizePreset_noTrim(presetRaw) ==
    LET given == IF TypeOf(presetRaw) = "undefined" \/ ValueOf(presetRaw) = <<>>
                 THEN <<"O", "r", "i", "g", "i", "n", "a", "l">>
                 ELSE ValueOf(presetRaw)
        s == toLowerCase(given)
    IN  IF s = kOriginal \/ s = kOrig \/ s = <<"o">> THEN kOriginal
        ELSE IF s = <<"h">> \/ s = kHollywood THEN kHollywood
        ELSE IF s = <<"c">> \/ s = kCool THEN kCool
        ELSE IF s = <<"m">> \/ s = kModel THEN kModel
        ELSE IF s = <<"e">> \/ s = kElegant THEN kElegant
        ELSE IF s = <<"f">> \/ s = kFierce THEN kFierce
        ELSE IF s = <<"n">> \/ s = kNatural THEN kNatural
        ELSE nullKey

(* presetRaw is req.body?.preset: Undefined or Str(characters).            *)
normalizePreset(presetRaw) ==
    LET given == IF TypeOf(presetRaw) = "undefined" \/ ValueOf(presetRaw) = <<>>
                 THEN <<"O", "r", "i", "g", "i", "n", "a", "l">>
                 ELSE ValueOf(presetRaw)
        s == toLowerCase(trim(given))
    IN  IF s = kOriginal \/ s = kOrig \/ s = <<"o">> THEN kOriginal
        ELSE IF s = <<"h">> \/ s = kHollywood THEN kHollywood
        ELSE IF s = <<"c">> \/ s = kCool THEN kCool
        ELSE IF s = <<"m">> \/ s = kModel THEN kModel
        ELSE IF s = <<"e">> \/ s = kElegant THEN kElegant
        ELSE IF s = <<"f">> \/ s = kFierce THEN kFierce
        ELSE IF s = <<"n">> \/ s = kNatural THEN kNatural
        ELSE nullKey

presetConfig ==
    (kOriginal :> [mode |-> "none"])
    @@ (kHollywood :> [lora_weights |-> "dx8152/Qwen-Image-Edit-2509-Relight",
                       lora_scale |-> "0.9",
                       prompt |-> "hollywood glamour lighting"])
    @@ (kCool :> [lora_weights |-> "tlennon-ie/qwen-edit-skin",
                  lora_scale |-> "1.0",
                  prompt |-> "cooler clean look"])
    @@ (kModel :> [lora_weights |-> "tlennon-ie/qwen-edit-skin",
                   lora_scale |-> "0.9",
                   prompt |-> "natural beauty retouch"])
    @@ (kElegant :> [lora_weights |-> "tlennon-ie/qwen-edit-skin",
                     lora_scale |-> "1.0",
                     prompt |-> "elegant portrait retouch"])
    @@ (kFierce :> [lora_weights |-> "tlennon-ie/qwen-edit-skin",
                    lora_scale |-> "1.25",
                    prompt |-> "fierce editorial portrait retouch"])
    @@ (kNatural :> [lora_weights |-> "tlennon-ie/qwen-edit-skin",
                     lora_scale |-> "1.0",
                     prompt |-> "high-end fashion model portrait retouch"])

(* presetKey.charAt(0).toUpperCase() + presetKey.slice(1) *)
presetNameOf(presetKey) == <<charToUpperCase(Head(presetKey))>> \o Tail(presetKey)

allowedPresets ==
    <<"Original", "Hollywood", "Cool", "Model", "Elegant", "Fierce", "Natural">>

(***************************************************************************)
(* The state.                                                              *)
(***************************************************************************)
VARIABLES
    nreq,       \* HTTP requests handled so far
    resp,       \* the response to the latest HTTP request
    revision,   \* "file" or "memory": which revision of index.js runs
    tokenSet,   \* REPLICATE_API_TOKEN is a non-empty string
    now,        \* Date.now()
    uploads,    \* UPLOADS_DIR: file name -> content
    results,    \* RESULTS_DIR: file name -> content
    jobs,       \* the jobs Map of the in-memory revision: jobId -> object
    task,       \* per job id: the background task and its closure
    seen        \* per job id: the statuses its polls were answered, in order

vars == <<nreq, resp, revision, tokenSet, now, uploads, results, jobs, task,
         seen>>

(* Job ids in the order newJobId / uuidv4 hands them out: fresh each time. *)
JobIdPool == <<"job-1", "job-2", "job-3", "job-4">>
JobIds == {JobIdPool[i] : i \in 1..MaxJobs}
(* Ids and names a client may ask for: those of jobs and one never issued. *)
IdSpace == JobIds \cup {"job-x"}

(* Contents of image files: uploads and downloaded outputs.                *)
Bytes == {"bytes-A", "bytes-B"}
Binary(b) == [enc |-> "binary", payload |-> b]

EmptyDir == [f \in {} |-> Binary("")]
EmptyMap == [f \in {} |-> <<>>]

exists(dir, name) == name \in DOMAIN dir
writeFile(dir, name, data) == (name :> data) @@ dir
unlink(dir, name) == [f \in (DOMAIN dir) \ {name} |-> dir[f]]
(* A copy that creates the destination and writes nothing into it.        *)
copyFileSync_emptyCopy(srcDir, src, dstDir, dst) == writeFile(dstDir, dst, Binary(""))
copyFileSync(srcDir, src, dstDir, dst) == writeFile(dstDir, dst, srcDir[src])

(* new Date().toISOString() *)
toISOString(ms) == Str(<<"ISO", ms>>)

Min(a, b) == IF a < b THEN a ELSE b
Bump(n) == Min(n + 1, MaxCount)

(* The task of a job id.  History kept with it: image, the bytes of the    *)
(* uploaded image; written, the bytes the task wrote to its result file;   *)
(* creates, polls, downloads, the external calls it issued; lastPoll, the  *)
(* answer to its latest poll ("error" or the status reported); answer, the *)
(* answer to its latest external call; overdue stays as it was when the    *)
(* task left waitForReplicate.                                             *)
NoTask ==
    [pc |-> "none", presetKey |-> nullKey, presetName |-> nullKey,
     inputPath |-> <<"upload", 0>>, image |-> "", startedAt |-> 0,
     overdue |-> FALSE, predictionId |-> "", url |-> "",
     outName |-> <<"", "">>, written |-> "",
     creates |-> 0, polls |-> 0, downloads |-> 0, lastPoll |-> "none",
     answer |-> [kind |-> "none", status |-> 0, json |-> <<>>, bytes |-> ""]]

Created(j) == task[j].pc # "none"
FreshIds == {i \in 1..MaxJobs : ~Created(JobIdPool[i])}
(* crypto.randomUUID(): an id no job has.                                  *)
newJobId == JobIdPool[CHOOSE i \in FreshIds : \A k \in FreshIds : i <= k]

(* resp: the latest request (op, arg, and for a POST the preset field) and *)
(* the response to it (status, body).                                      *)
NoResponse ==
    [op |-> "none", arg |-> <<>>, preset |-> Undefined, status |-> 0,
     body |-> Binary("")]

(***************************************************************************)
(* File-backed revision: job records (src/index.js 66-78).                 *)
(***************************************************************************)
(* One record file for all jobs.                                           *)
jobFilePath_oneFile(jobId) == <<"job", ".json">>
jobFilePath(jobId) == <<jobId, ".json">>

(* A write of the record under another name than the one readJob reads.   *)
writeJob_wrongPath(dir, jobId, data) ==
    writeFile(dir, <<jobId, ".job">>, JSONstringify(data))

writeJob(dir, jobId, data) == writeFile(dir, jobFilePath(jobId), JSONstringify(data))

(* A read that comes back with the first members of the record only, as  *)
(* it would from a file that is still being written.                      *)
readJob_partialRead(dir, jobId) ==
    IF ~exists(dir, jobFilePath(jobId)) THEN Null
    ELSE Obj(SubSeq(JSONparse(dir[jobFilePath(jobId)]), 1, 3))

readJob(dir, jobId) ==
    IF ~exists(dir, jobFilePath(jobId)) THEN Null
    ELSE Obj(JSONparse(dir[jobFilePath(jobId)]))

(* res.status(code).json(obj) *)
JsonResponse(op, arg, code, obj) ==
    [op |-> op, arg |-> arg, preset |-> Undefined, status |-> code,
     body |-> JSONstringify(obj)]

(***************************************************************************)
(* File-backed revision: POST /v1/impression (src/index.js 247-355).       *)
(***************************************************************************)
chars_Original == <<"O", "r", "i", "g", "i", "n", "a", "l">>
chars_hOLLYWOOD == <<" ", "h", "O", "L", "L", "Y", "W", "O", "O", "D", " ">>
chars_Unknown == <<"U", "n", "k", "n", "o", "w", "n">>

(* Values of req.body?.preset the clients of the model send.               *)
PresetInputs ==
    <<Undefined, Str(<<>>), Str(chars_Original), Str(chars_hOLLYWOOD),
      Str(chars_Unknown)>>

(* The names of the presets as a client is told to send them, in the order *)
(* of their keys, and further spellings a client may send: the name or a   *)
(* one-letter code in some letter case, with white space around it.        *)
presetNames ==
    <<chars_Original,
      <<"H", "o", "l", "l", "y", "w", "o", "o", "d">>,
      <<"C", "o", "o", "l">>,
      <<"M", "o", "d", "e", "l">>,
      <<"E", "l", "e", "g", "a", "n", "t">>,
      <<"F", "i", "e", "r", "c", "e">>,
      <<"N", "a", "t", "u", "r", "a", "l">>>>
presetKeys == <<kOriginal, kHollywood, kCool, kModel, kElegant, kFierce, kNatural>>
chars_Orig == <<"O", "r", "i", "g">>
OtherWords ==
    {chars_Unknown, <<"H", "o", "l", "l", "y">>, <<"O", "r", "i">>,
     <<"O", "r", "i", "g", "i", "n", "a", "l", "s">>, <<"C", "o", " ", "o", "l">>,
     <<"X">>, <<"O", "o">>, <<"B", "e", "a", "u", "t", "y">>, <<"N", "o", "n", "e">>,
     <<"0">>, <<" ">>}
LetterCases(w) ==
    {w,
     [i \in 1..Len(w) |-> charToLowerCase(w[i])],
     [i \in 1..Len(w) |-> charToUpperCase(w[i])],
     [i \in 1..Len(w) |-> IF i % 2 = 0 THEN charToUpperCase(w[i])
                          ELSE charToLowerCase(w[i])]}
Padded(w) == {w, <<" ">> \o w, w \o <<"\t">>, <<"\n", " ">> \o w \o <<" ">>}
Spellings(w) == UNION {Padded(c) : c \in LetterCases(w)}
PresetProbes ==
    UNION ({Spellings(presetNames[n]) : n \in 1..Len(presetNames)}
           \cup {Spellings(<<Head(presetNames[n])>>) : n \in 1..Len(presetNames)}
           \cup {Spellings(chars_Orig)}
           \cup {Spellings(w) : w \in OtherWords})

queuedRecord(jobId, presetName, t) ==
    <<<<"ok", Bool(TRUE)>>, <<"jobId", Str(jobId)>>, <<"status", Str("queued")>>,
      <<"preset", Str(presetName)>>, <<"createdAt", toISOString(t)>>>>

(* more: the members the stylization branch adds (replicate: { id }).       *)
(* A done record that names a file the task did not write.                *)
doneRecord_wrongFilename(jobId, presetName, startedAt, t, outName, more) ==
    <<<<"ok", Bool(TRUE)>>, <<"jobId", Str(jobId)>>, <<"status", Str("done")>>,
      <<"preset", Str(presetName)>>, <<"createdAt", toISOString(startedAt)>>,
      <<"finishedAt", toISOString(t)>>, <<"filename", Str(<<jobId, ".png">>)>>>> \o more

doneRecord(jobId, presetName, startedAt, t, outName, more) ==
    <<<<"ok", Bool(TRUE)>>, <<"jobId", Str(jobId)>>, <<"status", Str("done")>>,
      <<"preset", Str(presetName)>>, <<"createdAt", toISOString(startedAt)>>,
      <<"finishedAt", toISOString(t)>>, <<"filename", Str(outName)>>>> \o more

(* An error record whose status is not one of the four.                   *)
errorRecord_statusFailed(jobId, presetName, startedAt, t, message) ==
    <<<<"ok", Bool(TRUE)>>, <<"jobId", Str(jobId)>>, <<"status", Str("failed")>>,
      <<"preset", Str(presetName)>>, <<"createdAt", toISOString(startedAt)>>,
      <<"finishedAt", toISOString(t)>>, <<"error", Str(message)>>>>

errorRecord(jobId, presetName, startedAt, t, message) ==
    <<<<"ok", Bool(TRUE)>>, <<"jobId", Str(jobId)>>, <<"status", Str("error")>>,
      <<"preset", Str(presetName)>>, <<"createdAt", toISOString(startedAt)>>,
      <<"finishedAt", toISOString(t)>>, <<"error", Str(message)>>>>

(* multer's diskStorage: the image, when the request carries one, is in    *)
(* UPLOADS_DIR under a name of its own before the handler runs.            *)
uploadName(n) == <<"upload", n>>
multerStore(dir, n, hasFile, bytes) ==
    IF hasFile THEN writeFile(dir, uploadName(n), Binary(bytes)) ELSE dir

(* The validation of the handler: the 400 response, or Null when the       *)
(* request is accepted.                                                    *)
(* A validation whose 400 for an unknown preset leaves out the allowed     *)
(* list.                                                                   *)
rejection_withoutAllowed(hasFile, presetRaw) ==
    LET presetKey == normalizePreset(presetRaw) IN
    IF ~hasFile
    THEN Obj(<<<<"ok", Bool(FALSE)>>,
               <<"error", Str("image is required (field name: image)")>>>>)
    ELSE IF presetKey = nullKey \/ presetKey \notin DOMAIN presetConfig
    THEN Obj(<<<<"ok", Bool(FALSE)>>, <<"error", Str("Unknown preset")>>,
               <<"receivedPreset",
                 IF TypeOf(presetRaw) = "undefined" THEN Null ELSE presetRaw>>>>)
    ELSE Null

rejection(hasFile, presetRaw) ==
    LET presetKey == normalizePreset(presetRaw) IN
    IF ~hasFile
    THEN Obj(<<<<"ok", Bool(FALSE)>>,
               <<"error", Str("image is required (field name: image)")>>>>)
    ELSE IF presetKey = nullKey \/ presetKey \notin DOMAIN presetConfig
    THEN Obj(<<<<"ok", Bool(FALSE)>>, <<"error", Str("Unknown preset")>>,
               <<"receivedPreset",
                 IF TypeOf(presetRaw) = "undefined" THEN Null ELSE presetRaw>>,
               <<"allowed", Arr(allowedPresets)>>>>)
    ELSE Null

postResponse(hasFile, presetRaw, code, obj) ==
    [JsonResponse("POST /v1/impression", <<IF hasFile THEN "image" ELSE "no image">>,
                  code, obj) EXCEPT !.preset = presetRaw]

(* A handler that calls the task's callback at once instead of handing it *)
(* to setImmediate: the callback runs up to its first await before the     *)
(* response is sent.                                                       *)
PostImpression_callsTaskAtOnce(hasFile, bytes, presetRaw) ==
    /\ revision = "file"
    /\ nreq < MaxRequests
    /\ FreshIds # {}
    /\ LET jobId == newJobId
           presetKey == normalizePreset(presetRaw)
           presetName == presetNameOf(presetKey)
           rej == rejection(hasFile, presetRaw)
           stored == multerStore(uploads, nreq + 1, hasFile, bytes)
           t == [NoTask EXCEPT !.presetKey = presetKey,
                               !.presetName = presetName,
                               !.inputPath = uploadName(nreq + 1),
                               !.image = bytes,
                               !.startedAt = now,
                               !.outName = <<jobId, ".jpg">>]
       IN  /\ nreq' = nreq + 1
           /\ IF TypeOf(rej) # "null"
              THEN /\ resp' = postResponse(hasFile, presetRaw, 400, ValueOf(rej))
                   /\ uploads' = stored
                   /\ UNCHANGED <<results, task>>
              ELSE /\ resp' = postResponse(hasFile, presetRaw, 200,
                                <<<<"ok", Bool(TRUE)>>, <<"jobId", Str(jobId)>>,
                                  <<"status", Str("queued")>>,
                                  <<"preset", Str(presetName)>>>>)
                   /\ IF presetKey = kOriginal
                      THEN /\ results' = writeJob(
                                  copyFileSync(stored, t.inputPath, results, t.outName),
                                  jobId,
                                  doneRecord(jobId, presetName, now, now, t.outName, <<>>))
                           /\ uploads' = unlink(stored, t.inputPath)
                           /\ task' = [task EXCEPT ![jobId] =
                                         [t EXCEPT !.pc = "finished", !.written = bytes]]
                      ELSE /\ results' = writeJob(results, jobId,
                                                  queuedRecord(jobId, presetName, now))
                           /\ uploads' = stored
                           /\ task' = [task EXCEPT ![jobId] =
                                         [t EXCEPT !.pc = "creating", !.creates = 1]]
    /\ UNCHANGED <<revision, tokenSet, now, jobs, seen>>

PostImpression(hasFile, bytes, presetRaw) ==
    /\ revision = "file"
    /\ nreq < MaxRequests
    /\ FreshIds # {}
    /\ LET jobId == newJobId
           presetKey == normalizePreset(presetRaw)
           presetName == presetNameOf(presetKey)
           rej == rejection(hasFile, presetRaw)
       IN  /\ nreq' = nreq + 1
           /\ uploads' = multerStore(uploads, nreq + 1, hasFile, bytes)
           /\ IF TypeOf(rej) # "null"
              THEN /\ resp' = postResponse(hasFile, presetRaw, 400, ValueOf(rej))
                   /\ UNCHANGED <<results, task>>
              ELSE /\ results' = writeJob(results, jobId,
                                          queuedRecord(jobId, presetName, now))
                   /\ task' = [task EXCEPT ![jobId] =
                                 [NoTask EXCEPT !.pc = "scheduled",
                                                !.presetKey = presetKey,
                                                !.presetName = presetName,
                                                !.inputPath = uploadName(nreq + 1),
                                                !.image = bytes,
                                                !.outName = <<jobId, ".jpg">>]]
                   /\ resp' = postResponse(hasFile, presetRaw, 200,
                                <<<<"ok", Bool(TRUE)>>, <<"jobId", Str(jobId)>>,
                                  <<"status", Str("queued")>>,
                                  <<"preset", Str(presetName)>>>>)
    /\ UNCHANGED <<revision, tokenSet, now, jobs, seen>>

(***************************************************************************)
(* GET /v1/jobs/:jobId and GET /v1/result/:filename (src/index.js 360-378).*)
(***************************************************************************)
(* A handler without the 404 branch: res.json(job) whatever readJob found. *)
getJobResponse_no404(dir, jobId) ==
    LET job == readJob(dir, jobId) IN
    JsonResponse("GET /v1/jobs", <<jobId>>, 200,
                 IF TypeOf(job) = "null" THEN <<>> ELSE ValueOf(job))

getJobResponse(dir, jobId) ==
    LET job == readJob(dir, jobId) IN
    IF TypeOf(job) = "null"
    THEN JsonResponse("GET /v1/jobs", <<jobId>>, 404,
             <<<<"ok", Bool(FALSE)>>, <<"error", Str("Job not found")>>>>)
    ELSE JsonResponse("GET /v1/jobs", <<jobId>>, 200, ValueOf(job))

(* seen keeps, for the client, what each 200 answer to a poll of a job    *)
(* said its status was.                                                    *)
GetJob(jobId) ==
    /\ revision = "file"
    /\ nreq < MaxRequests
    /\ nreq' = nreq + 1
    /\ resp' = getJobResponse(results, jobId)
    /\ seen' = LET res == getJobResponse(results, jobId) IN
               IF jobId \in JobIds /\ res.status = 200
               THEN [seen EXCEPT ![jobId] =
                        Append(@, ValueOf(Field(res.body.payload, "status")))]
               ELSE seen
    /\ UNCHANGED <<revision, tokenSet, now, uploads, results, jobs, task>>

(* res.sendFile(filePath): the bytes of the file as they are on disk.      *)
sendFile(op, filename, dir) ==
    [op |-> op, arg |-> filename, preset |-> Undefined, status |-> 200,
     body |-> dir[filename]]

getResultResponse(dir, filename) ==
    IF ~exists(dir, filename)
    THEN JsonResponse("GET /v1/result", filename, 404,
             <<<<"error", Str("File not found")>>>>)
    ELSE sendFile("GET /v1/result", filename, dir)

GetResult(filename) ==
    /\ revision = "file"
    /\ nreq < MaxRequests
    /\ nreq' = nreq + 1
    /\ resp' = getResultResponse(results, filename)
    /\ UNCHANGED <<revision, tokenSet, now, uploads, results, jobs, task, seen>>

(***************************************************************************)
(* The Replicate API and the download host, as the task sees them.  A      *)
(* fetch ends with a network error (the promise rejects) or with an HTTP   *)
(* response: its status code and its body as JSON or as bytes.  What the   *)
(* other side answers is not decided by this program: every answer below   *)
(* can come at every call.                                                 *)
(***************************************************************************)
NetworkError == [kind |-> "network_error", status |-> 0, json |-> <<>>, bytes |-> ""]
HttpJson(code, obj) == [kind |-> "response", status |-> code, json |-> obj, bytes |-> ""]
HttpBytes(code, b) == [kind |-> "response", status |-> code, json |-> <<>>, bytes |-> b]
resOk(r) == r.status >= 200 /\ r.status <= 299

OutputUrl == "https://replicate.delivery/out.jpg"
predictionIdOf(jobId) == <<"prediction-of", jobId>>

CreateAnswers(jobId) ==
    <<NetworkError,
      HttpJson(401, <<<<"detail", Str("Unauthenticated")>>>>),
      HttpJson(500, <<>>),
      HttpJson(201, <<<<"id", Str(predictionIdOf(jobId))>>, <<"status", Str("starting")>>>>)>>

prediction(jobId, status, more) ==
    <<<<"id", Str(predictionIdOf(jobId))>>, <<"status", Str(status)>>>> \o more

PollAnswers(jobId) ==
    <<NetworkError,
      HttpJson(500, <<<<"detail", Str("Internal error")>>>>),
      HttpJson(200, prediction(jobId, "processing", <<>>)),
      HttpJson(200, prediction(jobId, "succeeded", <<<<"output", Str(OutputUrl)>>>>)),
      HttpJson(200, prediction(jobId, "succeeded",
                   <<<<"output", Arr(<<Str("https://replicate.delivery/0.jpg"),
                                      Str(OutputUrl)>>)>>>>)),
      HttpJson(200, prediction(jobId, "succeeded", <<<<"output", Null>>>>)),
      HttpJson(200, prediction(jobId, "succeeded", <<<<"output", Arr(<<>>)>>>>)),
      HttpJson(200, prediction(jobId, "succeeded", <<<<"output", Num(7)>>>>)),
      HttpJson(200, prediction(jobId, "succeeded", <<<<"output", Str("")>>>>)),
      HttpJson(200, prediction(jobId, "failed", <<<<"error", Str("NSFW content")>>>>)),
      HttpJson(200, prediction(jobId, "canceled", <<>>))>>

DownloadAnswers ==
    <<NetworkError, HttpBytes(404, ""), HttpBytes(200, "bytes-A"), HttpBytes(200, "bytes-B")>>

(* v as a condition: false for undefined, null and the empty string.       *)
Truthy(v) ==
    /\ TypeOf(v) \notin {"undefined", "null"}
    /\ TypeOf(v) = "string" => ValueOf(v) # ""

(* json?.detail || json?.error || JSON.stringify(json) *)
detailOf(json) ==
    IF Truthy(Field(json, "detail")) THEN ValueOf(Field(json, "detail"))
    ELSE IF Truthy(Field(json, "error")) THEN ValueOf(Field(json, "error"))
    ELSE IF json = <<>> THEN "{}"
    ELSE "JSON.stringify(json)"

(* Error messages: the parts of the template literal that builds them.     *)
MissingTokenMessage == <<"REPLICATE_API_TOKEN is missing. Add it in Railway Variables.">>
FetchFailedMessage == <<"fetch failed">>
TimeoutMessage == <<"Replicate timeout: still not finished">>
createFailedMessage(r) ==
    <<"Replicate create prediction failed (", r.status, "): ", detailOf(r.json)>>
getFailedMessage(r) ==
    <<"Replicate get prediction failed (", r.status, "): ", detailOf(r.json)>>
replicateFailedMessage(p) ==
    <<"Replicate failed: ",
      IF Truthy(Field(p, "error")) THEN ValueOf(Field(p, "error"))
      ELSE "Unknown Replicate error">>
unexpectedOutputMessage(output) ==
    <<"Unexpected Replicate output: ", "JSON.stringify(output)">>
downloadFailedMessage(r) == <<"Failed to download result (", r.status, ")">>

(***************************************************************************)
(* File-backed revision: the background task (src/index.js 277-352).       *)
(***************************************************************************)
(* The end of the task: the terminal record is written, then the finally   *)
(* block unlinks the upload; unlinkOk is whether fs.unlinkSync succeeds    *)
(* (its failure is swallowed).                                             *)
cleanup(dir, path, unlinkOk) ==
    IF unlinkOk /\ exists(dir, path) THEN unlink(dir, path) ELSE dir

(* A failure that leaves an empty file under the result name.             *)
TaskFails_leavesPartialFile(j, t, message, unlinkOk) ==
    /\ results' = writeJob(writeFile(results, t.outName, Binary("")), j,
                      errorRecord(j, t.presetName, t.startedAt, now, message))
    /\ uploads' = cleanup(uploads, t.inputPath, unlinkOk)
    /\ task' = [task EXCEPT ![j] = [t EXCEPT !.pc = "finished"]]

TaskFails(j, t, message, unlinkOk) ==
    /\ results' = writeJob(results, j,
                      errorRecord(j, t.presetName, t.startedAt, now, message))
    /\ uploads' = cleanup(uploads, t.inputPath, unlinkOk)
    /\ task' = [task EXCEPT ![j] = [t EXCEPT !.pc = "finished"]]

(* withFile: RESULTS_DIR once the result file is written.                  *)
TaskSucceeds(j, t, withFile, more, unlinkOk) ==
    /\ results' = writeJob(withFile, j,
                      doneRecord(j, t.presetName, t.startedAt, now, t.outName, more))
    /\ uploads' = cleanup(uploads, t.inputPath, unlinkOk)
    /\ task' = [task EXCEPT ![j] =
                  [t EXCEPT !.pc = "finished", !.written = withFile[t.outName].payload]]

(* if (!REPLICATE_API_TOKEN) throw ...: whether the call throws before any *)
(* request is sent.                                                        *)
(* A client without the check of the token: the request is always sent.   *)
replicateCreatePrediction_noTokenCheck(token) ==
    [throws |-> FALSE, message |-> <<>>]

replicateCreatePrediction(token) ==
    IF ~token THEN [throws |-> TRUE, message |-> MissingTokenMessage]
    ELSE [throws |-> FALSE, message |-> <<>>]

(* The setImmediate callback runs: for Original the whole task, otherwise  *)
(* up to the fetch of replicateCreatePrediction.                           *)
TaskStart(j, unlinkOk) ==
    /\ revision = "file"
    /\ task[j].pc = "scheduled"
    /\ LET t == [task[j] EXCEPT !.startedAt = now] IN
       IF t.presetKey = kOriginal
       THEN IF exists(uploads, t.inputPath)
            THEN TaskSucceeds(j, t,
                     copyFileSync(uploads, t.inputPath, results, t.outName),
                     <<>>, unlinkOk)
            ELSE TaskFails(j, t, <<"ENOENT: no such file or directory">>, unlinkOk)
       ELSE IF ~exists(uploads, t.inputPath)
       THEN TaskFails(j, t, <<"ENOENT: no such file or directory">>, unlinkOk)
       ELSE IF replicateCreatePrediction(tokenSet).throws
       THEN TaskFails(j, t, replicateCreatePrediction(tokenSet).message, unlinkOk)
       ELSE /\ task' = [task EXCEPT ![j] =
                          [t EXCEPT !.pc = "creating", !.creates = Bump(t.creates)]]
            /\ UNCHANGED <<results, uploads>>
    /\ UNCHANGED <<nreq, resp, revision, tokenSet, now, jobs, seen>>

(* A client that sends the create request again when it is refused.       *)
CreateReturns_retries(j, r, unlinkOk) ==
    /\ revision = "file"
    /\ task[j].pc = "creating"
    /\ LET t == [task[j] EXCEPT !.answer = r] IN
       IF r.kind = "network_error" THEN TaskFails(j, t, FetchFailedMessage, unlinkOk)
       ELSE IF ~resOk(r)
       THEN /\ task' = [task EXCEPT ![j] = [t EXCEPT !.creates = Bump(t.creates)]]
            /\ UNCHANGED <<results, uploads>>
       ELSE /\ task' = [task EXCEPT ![j] =
                          [t EXCEPT !.pc = "polling",
                                    !.predictionId = ValueOf(Field(r.json, "id")),
                                    !.overdue = FALSE,
                                    !.polls = Min(t.polls + 1, MaxPolls)]]
            /\ UNCHANGED <<results, uploads>>
    /\ UNCHANGED <<nreq, resp, revision, tokenSet, now, jobs, seen>>

(* The create-prediction fetch ends; on success waitForReplicate starts    *)
(* and issues its first poll.                                              *)
CreateReturns(j, r, unlinkOk) ==
    /\ revision = "file"
    /\ task[j].pc = "creating"
    /\ LET t == [task[j] EXCEPT !.answer = r] IN
       IF r.kind = "network_error" THEN TaskFails(j, t, FetchFailedMessage, unlinkOk)
       ELSE IF ~resOk(r) THEN TaskFails(j, t, createFailedMessage(r), unlinkOk)
       ELSE /\ task' = [task EXCEPT ![j] =
                          [t EXCEPT !.pc = "polling",
                                    !.predictionId = ValueOf(Field(r.json, "id")),
                                    !.overdue = FALSE,
                                    !.polls = Min(t.polls + 1, MaxPolls)]]
            /\ UNCHANGED <<results, uploads>>
    /\ UNCHANGED <<nreq, resp, revision, tokenSet, now, jobs, seen>>

(* More than timeoutMs (180000) have passed since waitForReplicate set     *)
(* started: from here on Date.now() - started > timeoutMs.                 *)
TimeoutElapses(j) ==
    /\ revision = "file"
    /\ task[j].pc \in {"polling", "sleeping"}
    /\ ~task[j].overdue
    /\ task' = [task EXCEPT ![j].overdue = TRUE]
    /\ UNCHANGED <<nreq, resp, revision, tokenSet, now, uploads, results, jobs, seen>>

(* done.output to the url to download: the last element of an array, the   *)
(* value itself otherwise.                                                 *)
urlOf(output) ==
    IF TypeOf(output) = "array"
    THEN IF ValueOf(output) = <<>> THEN Undefined
         ELSE ValueOf(output)[Len(ValueOf(output))]
    ELSE output

(* A loop that tests the time that has passed before it looks at the      *)
(* status the poll reported.                                               *)
PollReturns_timeoutFirst(j, r, unlinkOk) ==
    /\ revision = "file"
    /\ task[j].pc = "polling"
    /\ LET p == r.json
           status == ValueOf(Field(p, "status"))
           t == [task[j] EXCEPT !.answer = r, !.lastPoll =
                    IF r.kind = "network_error" \/ ~resOk(r) THEN "error" ELSE status]
           url == urlOf(Field(p, "output"))
       IN
       IF r.kind = "network_error" THEN TaskFails(j, t, FetchFailedMessage, unlinkOk)
       ELSE IF ~resOk(r) THEN TaskFails(j, t, getFailedMessage(r), unlinkOk)
       ELSE IF t.overdue
       THEN TaskFails(j, t, TimeoutMessage, unlinkOk)
       ELSE IF status = "succeeded"
       THEN IF ~Truthy(url) \/ TypeOf(url) # "string"
            THEN TaskFails(j, t, unexpectedOutputMessage(Field(p, "output")), unlinkOk)
            ELSE /\ task' = [task EXCEPT ![j] =
                               [t EXCEPT !.pc = "downloading", !.url = ValueOf(url),
                                         !.predictionId = ValueOf(Field(p, "id")),
                                         !.downloads = Bump(t.downloads)]]
                 /\ UNCHANGED <<results, uploads>>
       ELSE IF status = "failed" \/ status = "canceled"
       THEN TaskFails(j, t, replicateFailedMessage(p), unlinkOk)
       ELSE /\ task' = [task EXCEPT ![j] = [t EXCEPT !.pc = "sleeping"]]
            /\ UNCHANGED <<results, uploads>>
    /\ UNCHANGED <<nreq, resp, revision, tokenSet, now, jobs, seen>>

(* A loop without the test of the time that has passed.                   *)
PollReturns_noTimeout(j, r, unlinkOk) ==
    /\ revision = "file"
    /\ task[j].pc = "polling"
    /\ LET p == r.json
           status == ValueOf(Field(p, "status"))
           t == [task[j] EXCEPT !.answer = r, !.lastPoll =
                    IF r.kind = "network_error" \/ ~resOk(r) THEN "error" ELSE status]
           url == urlOf(Field(p, "output"))
       IN
       IF r.kind = "network_error" THEN TaskFails(j, t, FetchFailedMessage, unlinkOk)
       ELSE IF ~resOk(r) THEN TaskFails(j, t, getFailedMessage(r), unlinkOk)
       ELSE IF status = "succeeded"
       THEN IF ~Truthy(url) \/ TypeOf(url) # "string"
            THEN TaskFails(j, t, unexpectedOutputMessage(Field(p, "output")), unlinkOk)
            ELSE /\ task' = [task EXCEPT ![j] =
                               [t EXCEPT !.pc = "downloading", !.url = ValueOf(url),
                                         !.predictionId = ValueOf(Field(p, "id")),
                                         !.downloads = Bump(t.downloads)]]
                 /\ UNCHANGED <<results, uploads>>
       ELSE IF status = "failed" \/ status = "canceled"
       THEN TaskFails(j, t, replicateFailedMessage(p), unlinkOk)
       ELSE /\ task' = [task EXCEPT ![j] = [t EXCEPT !.pc = "sleeping"]]
            /\ UNCHANGED <<results, uploads>>
    /\ UNCHANGED <<nreq, resp, revision, tokenSet, now, jobs, seen>>

(* One turn of the loop of waitForReplicate, from the answer to a poll to  *)
(* the next await; on succeeded the task goes on to the download's fetch.  *)
PollReturns(j, r, unlinkOk) ==
    /\ revision = "file"
    /\ task[j].pc = "polling"
    /\ LET p == r.json
           status == ValueOf(Field(p, "status"))
           t == [task[j] EXCEPT !.answer = r, !.lastPoll =
                    IF r.kind = "network_error" \/ ~resOk(r) THEN "error" ELSE status]
           url == urlOf(Field(p, "output"))
       IN
       IF r.kind = "network_error" THEN TaskFails(j, t, FetchFailedMessage, unlinkOk)
       ELSE IF ~resOk(r) THEN TaskFails(j, t, getFailedMessage(r), unlinkOk)
       ELSE IF status = "succeeded"
       THEN IF ~Truthy(url) \/ TypeOf(url) # "string"
            THEN TaskFails(j, t, unexpectedOutputMessage(Field(p, "output")), unlinkOk)
            ELSE /\ task' = [task EXCEPT ![j] =
                               [t EXCEPT !.pc = "downloading", !.url = ValueOf(url),
                                         !.predictionId = ValueOf(Field(p, "id")),
                                         !.downloads = Bump(t.downloads)]]
                 /\ UNCHANGED <<results, uploads>>
       ELSE IF status = "failed" \/ status = "canceled"
       THEN TaskFails(j, t, replicateFailedMessage(p), unlinkOk)
       ELSE IF t.overdue
       THEN TaskFails(j, t, TimeoutMessage, unlinkOk)
       ELSE /\ task' = [task EXCEPT ![j] = [t EXCEPT !.pc = "sleeping"]]
            /\ UNCHANGED <<results, uploads>>
    /\ UNCHANGED <<nreq, resp, revision, tokenSet, now, jobs, seen>>

(* The setTimeout(pollMs) of the loop fires: the next poll is issued.      *)
SleepEnds(j) ==
    /\ revision = "file"
    /\ task[j].pc = "sleeping"
    /\ task' = [task EXCEPT ![j].pc = "polling", ![j].polls = Min(task[j].polls + 1, MaxPolls)]
    /\ UNCHANGED <<nreq, resp, revision, tokenSet, now, uploads, results, jobs, seen>>

(* A download that writes what it received before it looks at res.ok.     *)
DownloadReturns_writesBeforeCheck(j, r, unlinkOk) ==
    /\ revision = "file"
    /\ task[j].pc = "downloading"
    /\ LET t == [task[j] EXCEPT !.answer = r]
           written == writeFile(results, t.outName, Binary(r.bytes))
       IN
       IF r.kind = "network_error" THEN TaskFails(j, t, FetchFailedMessage, unlinkOk)
       ELSE IF ~resOk(r)
       THEN /\ results' = writeJob(written, j,
                             errorRecord(j, t.presetName, t.startedAt, now,
                                         downloadFailedMessage(r)))
            /\ uploads' = cleanup(uploads, t.inputPath, unlinkOk)
            /\ task' = [task EXCEPT ![j] = [t EXCEPT !.pc = "finished"]]
       ELSE TaskSucceeds(j, t, written,
                <<<<"replicate", Obj(<<<<"id", Str(t.predictionId)>>>>)>>>>, unlinkOk)
    /\ UNCHANGED <<nreq, resp, revision, tokenSet, now, jobs, seen>>

(* downloadToFile's fetch ends: the bytes are written to outPath and the   *)
(* done record after them, with no await in between.                       *)
DownloadReturns(j, r, unlinkOk) ==
    /\ revision = "file"
    /\ task[j].pc = "downloading"
    /\ LET t == [task[j] EXCEPT !.answer = r] IN
       IF r.kind = "network_error" THEN TaskFails(j, t, FetchFailedMessage, unlinkOk)
       ELSE IF ~resOk(r) THEN TaskFails(j, t, downloadFailedMessage(r), unlinkOk)
       ELSE TaskSucceeds(j, t, writeFile(results, t.outName, Binary(r.bytes)),
                <<<<"replicate", Obj(<<<<"id", Str(t.predictionId)>>>>)>>>>, unlinkOk)
    /\ UNCHANGED <<nreq, resp, revision, tokenSet, now, jobs, seen>>

(* Time passes. *)
Tick ==
    /\ now < MaxClock
    /\ now' = now + 1
    /\ UNCHANGED <<nreq, resp, revision, tokenSet, uploads, results, jobs, task, seen>>

(***************************************************************************)
(* In-memory revision (src/index.js 384-559).                              *)
(***************************************************************************)
(* uuidv4() for the name of a job's result file: fresh, not the job id.    *)
ResultUuidPool == <<"uuid-1", "uuid-2", "uuid-3", "uuid-4">>
jobIndex(j) == CHOOSE i \in 1..Len(JobIdPool) : JobIdPool[i] = j
resultNameOf(j) == <<ResultUuidPool[jobIndex(j)], ".jpg">>

(* { ...obj, k: v } *)
spread(obj, k, v) ==
    IF HasField(obj, k)
    THEN [i \in 1..Len(obj) |-> IF obj[i][1] = k THEN <<k, v>> ELSE obj[i]]
    ELSE Append(obj, <<k, v>>)

(* String(req.body?.preset || "Original") *)
presetString(presetRaw) ==
    IF TypeOf(presetRaw) = "undefined" \/ ValueOf(presetRaw) = <<>>
    THEN chars_Original
    ELSE ValueOf(presetRaw)

(* What replicate.run ends with: it throws, or returns the model's output. *)
RunAnswers ==
    <<[kind |-> "throws", message |-> <<"Prediction failed">>, output |-> Null],
      [kind |-> "returns", message |-> <<>>, output |-> Str(OutputUrl)],
      [kind |-> "returns", message |-> <<>>,
       output |-> Arr(<<Str(OutputUrl), Str("https://replicate.delivery/1.jpg")>>)],
      [kind |-> "returns", message |-> <<>>, output |-> Arr(<<>>)],
      [kind |-> "returns", message |-> <<>>, output |-> Str("")],
      [kind |-> "returns", message |-> <<>>, output |-> Null]>>

memFails(j, message) ==
    /\ jobs' = [jobs EXCEPT ![j] =
                  spread(spread(jobs[j], "status", Str("error")), "error", Str(message))]
    /\ task' = [task EXCEPT ![j].pc = "finished"]
    /\ UNCHANGED results

memSucceeds(j, bytes) ==
    /\ results' = writeFile(results, task[j].outName, Binary(bytes))
    /\ jobs' = [jobs EXCEPT ![j] =
                  spread(spread(jobs[j], "status", Str("done")),
                         "resultFilename", Str(task[j].outName))]
    /\ task' = [task EXCEPT ![j].pc = "finished", ![j].written = bytes]

(* The two early returns of the handler: the status and body of the       *)
(* refusal, or status 200 when the request goes on.                        *)
(* A handler without the check of the token.                              *)
memRejection_noTokenCheck(hasFile, token) ==
    IF ~hasFile
    THEN [status |-> 400,
          body |-> <<<<"ok", Bool(FALSE)>>,
                     <<"error", Str("No image file. Use field name 'image'.")>>>>]
    ELSE [status |-> 200, body |-> <<>>]

memRejection(hasFile, token) ==
    IF ~hasFile
    THEN [status |-> 400,
          body |-> <<<<"ok", Bool(FALSE)>>,
                     <<"error", Str("No image file. Use field name 'image'.")>>>>]
    ELSE IF ~token
    THEN [status |-> 500,
          body |-> <<<<"ok", Bool(FALSE)>>,
                     <<"error", Str("Missing REPLICATE_API_TOKEN in environment variables")>>>>]
    ELSE [status |-> 200, body |-> <<>>]

(* POST /v1/impression: the handler and, after res.json, the async         *)
(* function it calls, which runs on in the same turn up to its first       *)
(* await: to the end for "Original", to replicate.run otherwise.           *)
MemPostImpression(hasFile, bytes, presetRaw) ==
    /\ revision = "memory"
    /\ nreq < MaxRequests
    /\ FreshIds # {}
    /\ nreq' = nreq + 1
    /\ uploads' = multerStore(uploads, nreq + 1, hasFile, bytes)
    /\ LET preset == presetString(presetRaw)
           jobId == newJobId
           queued == <<<<"status", Str("queued")>>, <<"createdAt", toISOString(now)>>,
                       <<"preset", Str(preset)>>,
                       <<"inputFilename", Str(uploadName(nreq + 1))>>>>
           processing == spread(queued, "status", Str("processing"))
           t == [NoTask EXCEPT !.presetName = preset,
                               !.inputPath = uploadName(nreq + 1),
                               !.image = bytes,
                               !.outName = resultNameOf(jobId)]
       IN
       IF memRejection(hasFile, tokenSet).status # 200
       THEN /\ resp' = postResponse(hasFile, presetRaw,
                                    memRejection(hasFile, tokenSet).status,
                                    memRejection(hasFile, tokenSet).body)
            /\ UNCHANGED <<results, jobs, task>>
       ELSE /\ resp' = postResponse(hasFile, presetRaw, 200,
                          <<<<"ok", Bool(TRUE)>>, <<"jobId", Str(jobId)>>,
                            <<"status", Str("queued")>>, <<"preset", Str(preset)>>>>)
            /\ IF preset = chars_Original
               THEN /\ results' = writeFile(results, t.outName, Binary(bytes))
                    /\ jobs' = (jobId :> spread(spread(processing, "status", Str("done")),
                                                "resultFilename", Str(t.outName))) @@ jobs
                    /\ task' = [task EXCEPT ![jobId] =
                                  [t EXCEPT !.pc = "finished", !.written = bytes]]
               ELSE /\ jobs' = (jobId :> processing) @@ jobs
                    /\ task' = [task EXCEPT ![jobId] =
                                  [t EXCEPT !.pc = "running", !.creates = Bump(t.creates)]]
                    /\ UNCHANGED results
    /\ UNCHANGED <<revision, tokenSet, now, seen>>

(* replicate.run ends; on a usable output downloadToFile's fetch starts.   *)
MemRunReturns(j, r) ==
    /\ revision = "memory"
    /\ task[j].pc = "running"
    /\ LET outUrl == IF TypeOf(r.output) = "string" THEN r.output
                     ELSE IF TypeOf(r.output) = "array" /\ Len(ValueOf(r.output)) > 0
                     THEN ValueOf(r.output)[1]
                     ELSE Null
       IN
       IF r.kind = "throws" THEN memFails(j, r.message)
       ELSE IF ~Truthy(outUrl) THEN memFails(j, <<"Replicate returned empty output">>)
       ELSE /\ task' = [task EXCEPT ![j].pc = "downloading", ![j].url = ValueOf(outUrl),
                                    ![j].downloads = Bump(task[j].downloads)]
            /\ UNCHANGED <<results, jobs>>
    /\ UNCHANGED <<nreq, resp, revision, tokenSet, now, uploads, seen>>

MemDownloadReturns(j, r) ==
    /\ revision = "memory"
    /\ task[j].pc = "downloading"
    /\ IF r.kind = "network_error" THEN memFails(j, FetchFailedMessage)
       ELSE IF ~resOk(r) THEN memFails(j, <<"Failed to download: ", r.status>>)
       ELSE memSucceeds(j, r.bytes)
    /\ UNCHANGED <<nreq, resp, revision, tokenSet, now, uploads, seen>>

MemGetJob(jobId) ==
    /\ revision = "memory"
    /\ nreq < MaxRequests
    /\ nreq' = nreq + 1
    /\ resp' = IF jobId \notin DOMAIN jobs
               THEN JsonResponse("GET /v1/jobs", <<jobId>>, 404,
                        <<<<"ok", Bool(FALSE)>>, <<"error", Str("Job not found")>>>>)
               ELSE JsonResponse("GET /v1/jobs", <<jobId>>, 200,
                        <<<<"ok", Bool(TRUE)>>, <<"jobId", Str(jobId)>>>> \o jobs[jobId])
    /\ UNCHANGED <<revision, tokenSet, now, uploads, results, jobs, task, seen>>

MemGetResult(filename) ==
    /\ revision = "memory"
    /\ nreq < MaxRequests
    /\ nreq' = nreq + 1
    /\ resp' = IF ~exists(results, filename)
               THEN JsonResponse("GET /v1/result", filename, 404,
                        <<<<"ok", Bool(FALSE)>>, <<"error", Str("File not found")>>>>)
               ELSE sendFile("GET /v1/result", filename, results)
    /\ UNCHANGED <<revision, tokenSet, now, uploads, results, jobs, task, seen>>

(***************************************************************************)
(* Specifications.                                                         *)
(***************************************************************************)
Unlinks == BOOLEAN

InitCommon ==
    /\ nreq = 0
    /\ resp = NoResponse
    /\ tokenSet \in BOOLEAN
    /\ now = 0
    /\ uploads = EmptyDir
    /\ results = EmptyDir
    /\ jobs = EmptyMap
    /\ task = [j \in JobIds |-> NoTask]
    /\ seen = [j \in JobIds |-> <<>>]

Init == InitCommon /\ revision = "file"

ResultNames == {<<id, ext>> : id \in IdSpace, ext \in {".json", ".jpg"}}

Next ==
    \/ \E hasFile \in BOOLEAN, bytes \in Bytes, i \in 1..Len(PresetInputs) :
          PostImpression(hasFile, bytes, PresetInputs[i])
    \/ \E id \in IdSpace : GetJob(id)
    \/ \E name \in ResultNames : GetResult(name)
    \/ \E j \in JobIds, u \in Unlinks : TaskStart(j, u)
    \/ \E j \in JobIds, u \in Unlinks : \E i \in 1..Len(CreateAnswers(j)) :
          CreateReturns(j, CreateAnswers(j)[i], u)
    \/ \E j \in JobIds : TimeoutElapses(j)
    \/ \E j \in JobIds, u \in Unlinks : \E i \in 1..Len(PollAnswers(j)) :
          PollReturns(j, PollAnswers(j)[i], u)
    \/ \E j \in JobIds : SleepEnds(j)
    \/ \E j \in JobIds, u \in Unlinks, i \in 1..Len(DownloadAnswers) :
          DownloadReturns(j, DownloadAnswers[i], u)

(* Every run of the file-backed revision in which the millisecond clock    *)
(* moves only when a timeout budget runs out.  No guard reads the clock,   *)
(* so what the tasks and handlers can do is the same with and without      *)
(* ticks; the timestamps alone differ.                                     *)
Spec == Init /\ [][Next]_vars

InitMem == InitCommon /\ revision = "memory"

MemResultNames ==
    {<<id, ".jpg">> : id \in {ResultUuidPool[i] : i \in 1..MaxJobs} \cup IdSpace}

NextMem ==
    \/ \E hasFile \in BOOLEAN, bytes \in Bytes, i \in 1..Len(PresetInputs) :
          MemPostImpression(hasFile, bytes, PresetInputs[i])
    \/ \E id \in IdSpace : MemGetJob(id)
    \/ \E name \in MemResultNames : MemGetResult(name)
    \/ \E j \in JobIds, i \in 1..Len(RunAnswers) : MemRunReturns(j, RunAnswers[i])
    \/ \E j \in JobIds, i \in 1..Len(DownloadAnswers) :
          MemDownloadReturns(j, DownloadAnswers[i])

SpecMem == InitMem /\ [][NextMem]_vars

(* Preset resolution on its own: requests that carry an image and one of   *)
(* the probe spellings as preset.                                          *)
NextPreset ==
    \E w \in PresetProbes, bytes \in Bytes :
        nreq < MaxProbes /\ PostImpression(TRUE, bytes, Str(w))

SpecPreset == Init /\ [][NextPreset]_vars

(* The file-backed revision with the event loop running every callback    *)
(* that is ready, every fetch ending with some answer or a network error,  *)
(* every timer firing and the wall clock passing any budget.  A task waits *)
(* for one thing at a time, so fairness to its next step, whichever it is, *)
(* is fairness to each of its steps.                                       *)
TaskStep(j) ==
    \/ \E u \in Unlinks : TaskStart(j, u)
    \/ \E u \in Unlinks : \E i \in 1..Len(CreateAnswers(j)) :
          CreateReturns(j, CreateAnswers(j)[i], u)
    \/ \E u \in Unlinks : \E i \in 1..Len(PollAnswers(j)) :
          PollReturns(j, PollAnswers(j)[i], u)
    \/ SleepEnds(j)
    \/ \E u \in Unlinks, i \in 1..Len(DownloadAnswers) :
          DownloadReturns(j, DownloadAnswers[i], u)

TaskFairness(j) == WF_vars(TaskStep(j)) /\ WF_vars(TimeoutElapses(j))

(* The steps that write: the POSTs and the tasks.  The GET handlers read   *)
(* and answer, and change nothing a task or a POST looks at; no step looks *)
(* at the bytes of an image, so one image stands for all.                  *)
NextWrites ==
    \/ \E hasFile \in BOOLEAN, i \in 1..Len(PresetInputs) :
          PostImpression(hasFile, "bytes-A", PresetInputs[i])
    \/ \E j \in JobIds, u \in Unlinks : TaskStart(j, u)
    \/ \E j \in JobIds, u \in Unlinks : \E i \in 1..Len(CreateAnswers(j)) :
          CreateReturns(j, CreateAnswers(j)[i], u)
    \/ \E j \in JobIds : TimeoutElapses(j)
    \/ \E j \in JobIds, u \in Unlinks : \E i \in 1..Len(PollAnswers(j)) :
          PollReturns(j, PollAnswers(j)[i], u)
    \/ \E j \in JobIds : SleepEnds(j)
    \/ \E j \in JobIds, u \in Unlinks, i \in 1..Len(DownloadAnswers) :
          DownloadReturns(j, DownloadAnswers[i], u)

SpecFair == Init /\ [][NextWrites]_vars /\ \A j \in JobIds : TaskFairness(j)

(* The POSTs and the tasks with the clock ticking between any two steps.  *)
NextTimed == NextWrites \/ Tick
SpecTimed == Init /\ [][NextTimed]_vars

(* A deployment runs one of the two revisions.                             *)
InitBoth == InitCommon /\ revision \in {"file", "memory"}
NextBoth == Next \/ NextMem
SpecBoth == InitBoth /\ [][NextBoth]_vars

(***************************************************************************)
(* What the claims speak of.                                               *)
(***************************************************************************)
Recognized(presetRaw) == normalizePreset(presetRaw) \in DOMAIN presetConfig
HasRecord(j) == exists(results, jobFilePath(j))
recordOf(j) == ValueOf(readJob(results, j))
statusOf(j) == ValueOf(Field(recordOf(j), "status"))
IsDone(j) == HasRecord(j) /\ statusOf(j) = "done"
filenameOf(j) == ValueOf(Field(recordOf(j), "filename"))
IsPost == resp.op = "POST /v1/impression"
WithImage == resp.arg = <<"image">>
bodyOf(r) == r.body.payload
Stylized(j) == Created(j) /\ task[j].presetKey # kOriginal
PassThrough(j) == Created(j) /\ task[j].presetKey = kOriginal

(* C1: an accepted POST (image and recognized preset) is answered 200 with *)
(* status "queued" and a jobId, and from then on GET /v1/jobs/:jobId for a *)
(* created job is never answered 404.                                      *)
C1_QueuedAndFetchable ==
    /\ (IsPost /\ WithImage /\ Recognized(resp.preset)) =>
          /\ resp.status = 200
          /\ Field(bodyOf(resp), "status") = Str("queued")
          /\ TypeOf(Field(bodyOf(resp), "jobId")) = "string"
          /\ getJobResponse(results, ValueOf(Field(bodyOf(resp), "jobId"))).status = 200
    /\ \A j \in JobIds : Created(j) => getJobResponse(results, j).status = 200

C1_Witness ==
    \E j \in JobIds :
        /\ task[j].pc = "finished"
        /\ IsPost /\ resp.status = 200
        /\ Field(bodyOf(resp), "jobId") = Str(j)

(* C2: a pass-through job is either waiting for its setImmediate callback, *)
(* which can run, or finished with status done, a filename in its record   *)
(* and a result file whose bytes are those of the uploaded image; with and *)
(* without the API token.                                                  *)
C2_PassThroughCopiesUpload ==
    \A j \in JobIds : PassThrough(j) =>
        \/ /\ task[j].pc = "scheduled"
           /\ statusOf(j) = "queued"
           /\ ENABLED (\E u \in Unlinks : TaskStart(j, u))
        \/ /\ task[j].pc = "finished"
           /\ statusOf(j) = "done"
           /\ TypeOf(Field(recordOf(j), "filename")) = "string"
           /\ exists(results, filenameOf(j))
           /\ results[filenameOf(j)] = Binary(task[j].image)

C2_Witness ==
    \E j \in JobIds :
        /\ PassThrough(j) /\ ~tokenSet /\ IsDone(j)
        /\ resp.op = "GET /v1/result" /\ resp.arg = filenameOf(j)
        /\ resp.body = Binary(task[j].image)

(* C3: a POST without image or with an unrecognized preset is answered     *)
(* 400; a 400 leaves the job records and the tasks as they were and its    *)
(* body has no jobId, and for an unrecognized preset it lists the allowed  *)
(* names; a record in status queued always has a task that has not ended.  *)
C3_RejectedCreatesNothing ==
    /\ [](\A j \in JobIds :
              (HasRecord(j) /\ statusOf(j) = "queued") =>
                    task[j].pc \notin {"none", "finished"})
    /\ [][ (nreq' = nreq + 1 /\ resp'.op = "POST /v1/impression") =>
              /\ (resp'.arg # <<"image">> \/ ~Recognized(resp'.preset))
                    => resp'.status = 400
              /\ resp'.status = 400 =>
                    /\ results' = results /\ task' = task /\ jobs' = jobs
                    /\ ~HasField(bodyOf(resp'), "jobId")
                    /\ resp'.arg = <<"image">> =>
                          Field(bodyOf(resp'), "allowed") = Arr(allowedPresets)
          ]_vars

C3_Witness ==
    /\ IsPost /\ WithImage /\ resp.status = 400
    /\ HasField(bodyOf(resp), "allowed")
    /\ \E j \in JobIds : HasRecord(j) /\ statusOf(j) = "queued"

(* C4: while a job's record says done, the filename in it names a file of  *)
(* the results directory, and GET /v1/result/:filename answers 200 with    *)
(* the bytes the job's task wrote.                                         *)
C4_DoneResultIsServed ==
    \A j \in JobIds : IsDone(j) =>
        /\ TypeOf(Field(recordOf(j), "filename")) = "string"
        /\ exists(results, filenameOf(j))
        /\ getResultResponse(results, filenameOf(j)).status = 200
        /\ getResultResponse(results, filenameOf(j)).body = Binary(task[j].written)
        /\ (resp.op = "GET /v1/result" /\ resp.arg = filenameOf(j) /\ resp.status = 200)
              => resp.body = Binary(task[j].written)

C4_Witness ==
    \E j \in JobIds :
        /\ Stylized(j) /\ IsDone(j)
        /\ resp.op = "GET /v1/result" /\ resp.arg = filenameOf(j) /\ resp.status = 200

(* C5: GET /v1/result/:filename is answered 404 unless the filename is the *)
(* result filename of a job whose record says done.                        *)
C5_OnlyDoneResultsServed ==
    (resp.op = "GET /v1/result" /\ resp.status # 404) =>
        \E j \in JobIds : IsDone(j) /\ filenameOf(j) = resp.arg

TerminalStatuses == {"succeeded", "failed", "canceled"}
NoResultFile(j) == ~exists(results, task[j].outName)
errorOf(j) == Field(recordOf(j), "error")
(* The job's task left waitForReplicate on a 2xx answer whose status was   *)
(* not succeeded, failed or canceled.                                      *)
LeftOnPending(j) ==
    /\ Stylized(j) /\ task[j].pc = "finished"
    /\ task[j].lastPoll \notin TerminalStatuses \cup {"none", "error"}

(* C6 as stated, in what it says of the record and the result file: a      *)
(* stylization job that has ended, whose create, polls and download were   *)
(* all answered 2xx and to which no poll reported succeeded, failed or     *)
(* canceled before the timeout budget ran out, is in status error and has  *)
(* no result file.                                                         *)
C6_NoTerminalReportInTimeIsError ==
    \A j \in JobIds :
        ( /\ Stylized(j) /\ task[j].pc = "finished"
          /\ task[j].polls > 0 /\ task[j].lastPoll # "error"
          /\ ~(task[j].lastPoll \in TerminalStatuses /\ ~task[j].overdue)
          /\ (statusOf(j) = "error" => errorOf(j) # Str(downloadFailedMessage(HttpBytes(404, "")))
                                       /\ errorOf(j) # Str(FetchFailedMessage)) )
        => (statusOf(j) = "error" /\ NoResultFile(j))

(* C6, amended: once the budget has run out, a poll answered 2xx with a    *)
(* status that is not succeeded, failed or canceled ends the task; a task  *)
(* that ended on such an answer left the record in status error with the   *)
(* timeout message, after the budget ran out, and no result file exists    *)
(* for the job.                                                            *)
C6_TimeoutIsErrorWithoutResult ==
    [][\A j \in JobIds :
          /\ ( /\ task[j].pc = "polling" /\ task[j].overdue
               /\ task'[j].pc # "polling"
               /\ task'[j].lastPoll \notin TerminalStatuses \cup {"error"} )
                => task'[j].pc = "finished"
          /\ LeftOnPending(j)' =>
                /\ task'[j].overdue
                /\ statusOf(j)' = "error"
                /\ errorOf(j)' = Str(TimeoutMessage)
                /\ NoResultFile(j)'
      ]_vars

C6_Witness == \E j \in JobIds : LeftOnPending(j) /\ task[j].polls > 0

(* C7: without the API token a POST with an image and a stylization preset *)
(* is answered 200 queued; the job's task sends no request to the API, is  *)
(* either scheduled and able to run or finished, and once finished the     *)
(* record is in status error with the message that names                   *)
(* REPLICATE_API_TOKEN.                                                    *)
C7_MissingTokenFailsJob ==
    ~tokenSet =>
        /\ ( /\ IsPost /\ WithImage /\ Recognized(resp.preset)
             /\ normalizePreset(resp.preset) # kOriginal )
              => (resp.status = 200 /\ Field(bodyOf(resp), "status") = Str("queued"))
        /\ \A j \in JobIds : Stylized(j) =>
              /\ task[j].creates = 0 /\ task[j].polls = 0 /\ task[j].downloads = 0
              /\ \/ /\ task[j].pc = "scheduled"
                    /\ ENABLED (\E u \in Unlinks : TaskStart(j, u))
                 \/ /\ task[j].pc = "finished"
                    /\ statusOf(j) = "error"
                    /\ errorOf(j) = Str(MissingTokenMessage)

C7_Witness ==
    /\ ~tokenSet
    /\ \E j \in JobIds : Stylized(j) /\ task[j].pc = "finished"
                         /\ resp = getJobResponse(results, j)

(* C8: in the in-memory revision without the API token every POST with an  *)
(* image is answered 500 with { ok: false, error }, whatever the preset,   *)
(* the job map stays empty and no task exists.                             *)
C8_MemMissingTokenIs500 ==
    ~tokenSet =>
        /\ DOMAIN jobs = {}
        /\ \A j \in JobIds : ~Created(j)
        /\ (IsPost /\ WithImage) =>
              /\ resp.status = 500
              /\ Field(bodyOf(resp), "ok") = Bool(FALSE)
              /\ TypeOf(Field(bodyOf(resp), "error")) = "string"
              /\ ~HasField(bodyOf(resp), "jobId")

C8_Witness ==
    /\ ~tokenSet /\ IsPost /\ WithImage /\ resp.status = 500
    /\ resp.preset = Str(chars_Original)

(* C9: GET /v1/jobs/:jobId is answered 404 for an id no job was created    *)
(* with and otherwise 200 with the record as stored; a GET of a job or of  *)
(* a result leaves every job record, result file, upload and task as it    *)
(* was.                                                                    *)
C9_GetsAreReadOnly ==
    [][ /\ (nreq' = nreq + 1 /\ resp'.op \in {"GET /v1/jobs", "GET /v1/result"}) =>
              /\ results' = results /\ uploads' = uploads
              /\ jobs' = jobs /\ task' = task
        /\ (nreq' = nreq + 1 /\ resp'.op = "GET /v1/jobs") =>
              LET id == resp'.arg[1] IN
              IF id \in JobIds /\ Created(id)
              THEN resp'.status = 200 /\ resp'.body = results[jobFilePath(id)]
              ELSE resp'.status = 404
      ]_vars

C9_Witness ==
    /\ resp.op = "GET /v1/jobs" /\ resp.status = 200
    /\ \E j \in JobIds : resp.arg = <<j>> /\ task[j].pc = "finished"
                         /\ \E k \in JobIds : k # j /\ Created(k)

(* C10: a POST with an image and no preset field, or an empty one, is      *)
(* answered 400.                                                           *)
C10_PresetIsRequired ==
    ( /\ IsPost /\ WithImage
      /\ (TypeOf(resp.preset) = "undefined" \/ resp.preset = Str(<<>>)) )
    => resp.status = 400


(* The latest request was a POST with an image whose preset field is the   *)
(* string of characters w.                                                 *)
PostedPreset(w) == IsPost /\ WithImage /\ resp.preset = Str(w)
(* The POST was accepted as a job of the n-th preset: the key resolved,    *)
(* the configuration found, the canonical name answered and recorded.      *)
AcceptedAs(n) ==
    /\ normalizePreset(resp.preset) = presetKeys[n]
    /\ presetKeys[n] \in DOMAIN presetConfig
    /\ resp.status = 200
    /\ Field(bodyOf(resp), "preset") = Str(presetNames[n])
    /\ LET j == ValueOf(Field(bodyOf(resp), "jobId")) IN
       HasRecord(j) /\ Field(recordOf(j), "preset") = Str(presetNames[n])
RefusedAsUnknown ==
    /\ normalizePreset(resp.preset) = nullKey
    /\ resp.status = 400
    /\ Field(bodyOf(resp), "error") = Str("Unknown preset")
NameOrLetter(n) == Spellings(presetNames[n]) \cup Spellings(<<Head(presetNames[n])>>)

(* C11 as stated: a preset name or its one-letter code, in any letter case *)
(* and with white space around it, resolves to the preset's key and the    *)
(* job carries the canonical name; every other non-empty string is refused *)
(* as an unknown preset.                                                   *)
C11_OnlyNamesAndLetters ==
    \A w \in PresetProbes : PostedPreset(w) =>
        IF \E n \in 1..Len(presetNames) : w \in NameOrLetter(n)
        THEN \A n \in 1..Len(presetNames) : w \in NameOrLetter(n) => AcceptedAs(n)
        ELSE RefusedAsUnknown

(* C11, amended: as stated, except that "orig", in any letter case and     *)
(* with white space around it, resolves to the preset Original too.        *)
C11_NamesLettersAndOrig ==
    \A w \in PresetProbes : PostedPreset(w) =>
        IF w \in Spellings(chars_Orig) THEN AcceptedAs(1)
        ELSE IF \E n \in 1..Len(presetNames) : w \in NameOrLetter(n)
        THEN \A n \in 1..Len(presetNames) : w \in NameOrLetter(n) => AcceptedAs(n)
        ELSE RefusedAsUnknown

C11_Witness ==
    /\ PostedPreset(<<"\n", " ", "f", "I", "e", "R", "c", "E", " ">>)
    /\ AcceptedAs(6)


(* What is stored for a job in either revision: the record file or the     *)
(* entry of the jobs Map, as a sequence that is empty while there is none. *)
(* storedStatus: the status member of it, "absent" while there is none.    *)
storedRecord(j) ==
    IF revision = "file"
    THEN IF HasRecord(j) THEN <<results[jobFilePath(j)]>> ELSE <<>>
    ELSE IF j \in DOMAIN jobs THEN <<jobs[j]>> ELSE <<>>
storedStatus(j) ==
    IF storedRecord(j) = <<>> THEN "absent"
    ELSE IF revision = "file"
    THEN ValueOf(Field(results[jobFilePath(j)].payload, "status"))
    ELSE ValueOf(Field(jobs[j], "status"))
statusRank(st) ==
    CASE st = "absent" -> 0
      [] st = "queued" -> 1
      [] st = "processing" -> 2
      [] st \in {"done", "error"} -> 3
      [] OTHER -> 4

(* C12: in both revisions the status stored for a job is queued,           *)
(* processing, done or error; a job has a record exactly when it has its   *)
(* one task, and a terminal status exactly when that task has ended; every *)
(* change of what is stored for a job moves its status forward along       *)
(* queued, processing, done | error, so that a record in done or error is  *)
(* never changed again.                                                    *)
C12_StatusLifecycle ==
    /\ [](\A j \in JobIds :
            /\ statusRank(storedStatus(j)) <= 3
            /\ storedStatus(j) # "absent" <=> Created(j)
            /\ storedStatus(j) \in {"done", "error"} <=> task[j].pc = "finished")
    /\ [][\A j \in JobIds :
            storedRecord(j)' # storedRecord(j) =>
                statusRank(storedStatus(j)) < statusRank(storedStatus(j)')
         ]_vars

C12_Witness ==
    \E j, k \in JobIds :
        /\ storedStatus(j) = "done" /\ storedStatus(k) = "error"
        /\ nreq = MaxRequests


(* C13: every accepted job eventually has a record in status done or       *)
(* error, when the event loop is fair, every external call is answered     *)
(* and time passes.                                                        *)
C13_EveryJobEnds ==
    \A j \in JobIds :
        (HasRecord(j) /\ statusOf(j) = "queued")
            ~> (HasRecord(j) /\ statusOf(j) \in {"done", "error"})

C13_Witness ==
    \E j \in JobIds :
        /\ Stylized(j) /\ task[j].polls > 0 /\ task[j].overdue
        /\ HasRecord(j) /\ statusOf(j) = "error" /\ errorOf(j) = Str(TimeoutMessage)


(* The job a 200 answer to a POST names.                                   *)
answeredJob(r) == ValueOf(Field(bodyOf(r), "jobId"))

(* C14: when the response to an accepted POST is sent, the job's task      *)
(* exists and has run no step: the record is the queued record, the job    *)
(* has no result file and its task has issued no create, poll or download. *)
C14_ResponseBeforeTask ==
    [][ ( /\ nreq' = nreq + 1
          /\ resp'.op = "POST /v1/impression" /\ resp'.status = 200 )
        => LET j == answeredJob(resp') IN
           /\ task[j].pc = "none"
           /\ task'[j].pc = "scheduled"
           /\ exists(results', jobFilePath(j))
           /\ Field(results'[jobFilePath(j)].payload, "status") = Str("queued")
           /\ ~exists(results', task'[j].outName)
           /\ task'[j].creates = 0 /\ task'[j].polls = 0 /\ task'[j].downloads = 0
      ]_vars

C14_Witness ==
    /\ IsPost /\ resp.status = 200
    /\ LET j == answeredJob(resp) IN
       /\ task[j].pc = "scheduled" /\ Stylized(j) /\ tokenSet
       /\ \E k \in JobIds : k # j /\ task[k].pc = "finished"


(* The job's task has ended and its record says error with this message.   *)
FailedWith(j, message) ==
    /\ task[j].pc = "finished"
    /\ exists(results, jobFilePath(j))
    /\ Field(results[jobFilePath(j)].payload, "status") = Str("error")
    /\ Field(results[jobFilePath(j)].payload, "error") = Str(message)
Refused(r) == r.kind = "response" /\ ~resOk(r)
(* An output that names a file to download: a non-empty string, or a list  *)
(* whose last element is one.                                              *)
NamesUrl(output) ==
    \/ TypeOf(output) = "string" /\ ValueOf(output) # ""
    \/ /\ TypeOf(output) = "array" /\ ValueOf(output) # <<>>
       /\ TypeOf(ValueOf(output)[Len(ValueOf(output))]) = "string"
       /\ ValueOf(ValueOf(output)[Len(ValueOf(output))]) # ""
reported(r) == ValueOf(Field(r.json, "status"))

(* The call the task's latest answer came to.                              *)
answeredCall(j) ==
    IF task[j].downloads > 0 /\ task[j].pc = "finished" THEN "download"
    ELSE IF task[j].polls > 0 /\ task[j].pc # "polling" THEN "poll"
    ELSE IF task[j].polls > 0 /\ task[j].lastPoll # "none" THEN "poll"
    ELSE "create"

(* C15: a task issues create-prediction at most once and at most one       *)
(* download, and none after it has ended; once a task has received a       *)
(* non-2xx answer to create, to a poll or to the download, a poll's status *)
(* failed or canceled, or a succeeded poll whose output names no URL, the  *)
(* task has ended with the record in error and the message of that         *)
(* failure.                                                                *)
C15_FailuresEndTheTask ==
    /\ [](\A j \in JobIds :
            LET r == task[j].answer IN
            /\ task[j].creates <= 1 /\ task[j].downloads <= 1
            /\ Refused(r) =>
                  FailedWith(j, CASE answeredCall(j) = "create" -> createFailedMessage(r)
                                  [] answeredCall(j) = "poll" -> getFailedMessage(r)
                                  [] OTHER -> downloadFailedMessage(r))
            /\ (r.kind = "response" /\ resOk(r) /\ answeredCall(j) = "poll") =>
                  /\ reported(r) \in {"failed", "canceled"} =>
                        FailedWith(j, replicateFailedMessage(r.json))
                  /\ (reported(r) = "succeeded" /\ ~NamesUrl(Field(r.json, "output"))) =>
                        FailedWith(j, unexpectedOutputMessage(Field(r.json, "output"))))
    /\ [][\A j \in JobIds : task[j].pc = "finished" => task'[j] = task[j]]_vars

C15_Witness ==
    \E j \in JobIds :
        /\ FailedWith(j, downloadFailedMessage(HttpBytes(404, "")))
        /\ task[j].creates = 1 /\ task[j].downloads = 1


(* C16: a job whose record says queued or error has no result file in the  *)
(* results directory, whatever made it fail.                               *)
C16_NoArtifactUnlessDone ==
    \A j \in JobIds :
        (HasRecord(j) /\ statusOf(j) \in {"queued", "error"})
            => ~exists(results, <<j, ".jpg">>)

C16_Witness ==
    \E j, k \in JobIds :
        /\ HasRecord(j) /\ statusOf(j) = "error" /\ task[j].downloads = 1
        /\ ~exists(results, <<j, ".jpg">>)
        /\ IsDone(k) /\ exists(results, <<k, ".jpg">>)


(* C17, in the part a finite run refutes: only a job's task removes an     *)
(* upload, so a stored upload that is removed in the end is the input of   *)
(* some job's task: every file of the uploads directory belongs to a job.  *)
C17_EveryUploadHasAJob ==
    \A f \in DOMAIN uploads :
        \E j \in JobIds : Created(j) /\ task[j].inputPath = f

(* The result file of a job, as a sequence that is empty while there is    *)
(* none.                                                                   *)
resultFile(j) ==
    LET name == IF revision = "file" THEN <<j, ".jpg">> ELSE resultNameOf(j) IN
    IF exists(results, name) THEN <<results[name]>> ELSE <<>>
(* The next step of a job's task in either revision.                       *)
NextStepOf(j) ==
    \/ TaskStep(j)
    \/ \E i \in 1..Len(RunAnswers) : MemRunReturns(j, RunAnswers[i])
    \/ \E i \in 1..Len(DownloadAnswers) : MemDownloadReturns(j, DownloadAnswers[i])

(* C18: a step that creates a job or moves its task on leaves the record,  *)
(* the result file and the task of every other job as they were; and the   *)
(* next step of a task that has not ended can be taken whatever the other  *)
(* jobs are waiting for.                                                   *)
C18_JobsDoNotInterfere ==
    /\ [](\A j \in JobIds :
            task[j].pc \notin {"none", "finished"} => ENABLED NextStepOf(j))
    /\ [][\A j \in JobIds : task'[j] # task[j] =>
            \A k \in JobIds \ {j} :
                /\ storedRecord(k)' = storedRecord(k)
                /\ resultFile(k)' = resultFile(k)
                /\ task'[k] = task[k]
         ]_vars

C18_Witness ==
    /\ task["job-1"].pc \in {"creating", "running"}
    /\ task["job-2"].pc = "finished" /\ task["job-2"].downloads = 1
    /\ storedStatus("job-2") = "done"


(* C19: a write that replaces a job's record keeps its jobId, its preset   *)
(* and its createdAt as they were in the record it replaces.               *)
C19_TerminalKeepsCreation ==
    [][\A j \in JobIds :
          (exists(results, jobFilePath(j)) /\ exists(results', jobFilePath(j))) =>
              \A key \in {"jobId", "preset", "createdAt"} :
                  Field(results'[jobFilePath(j)].payload, key)
                      = Field(results[jobFilePath(j)].payload, key)
      ]_vars


(* The task's latest answer is a 2xx answer to a poll.                     *)
PollAnswered(j) ==
    /\ answeredCall(j) = "poll"
    /\ task[j].answer.kind = "response" /\ resOk(task[j].answer)

(* C20: what a poll reports counts before the time that has passed: a      *)
(* succeeded poll with a URL takes the task to the download, and a failed  *)
(* or canceled one fails it with the Replicate error, whether or not the   *)
(* budget has run out; the record says timeout only after a poll that was  *)
(* answered 2xx with neither succeeded, failed nor canceled once the       *)
(* budget had run out, so after at least one poll; and while a poll is     *)
(* outstanding or the loop sleeps the record stays queued.                 *)
C20_PollResultBeforeTimeout ==
    \A j \in JobIds :
        LET r == task[j].answer IN
        /\ PollAnswered(j) =>
              /\ (reported(r) = "succeeded" /\ NamesUrl(Field(r.json, "output"))) =>
                    /\ task[j].pc \in {"downloading", "finished"}
                    /\ task[j].downloads = 1
                    /\ ~FailedWith(j, TimeoutMessage)
              /\ reported(r) \in {"failed", "canceled"} =>
                    FailedWith(j, replicateFailedMessage(r.json))
        /\ FailedWith(j, TimeoutMessage) =>
              /\ task[j].polls > 0 /\ task[j].overdue
              /\ PollAnswered(j) /\ reported(r) \notin TerminalStatuses
        /\ task[j].pc \in {"polling", "sleeping"} => statusOf(j) = "queued"

C20_Witness ==
    \E j \in JobIds :
        /\ task[j].overdue /\ PollAnswered(j) /\ reported(task[j].answer) = "succeeded"
        /\ task[j].pc = "downloading"


(* The records the program writes for job j: the one of the POST handler   *)
(* and the one its task ends with.                                         *)
QueuedRecordOf(j, rec) ==
    \E t \in 0..MaxClock : rec = queuedRecord(j, task[j].presetName, t)
TerminalRecordOf(j, rec) ==
    /\ task[j].pc = "finished"
    /\ \E t \in 0..MaxClock :
          \/ /\ HasField(rec, "error")
             /\ rec = errorRecord(j, task[j].presetName, task[j].startedAt, t,
                                  ValueOf(Field(rec, "error")))
          \/ \E more \in {<<>>, <<<<"replicate",
                                   Obj(<<<<"id", Str(task[j].predictionId)>>>>)>>>>} :
                rec = doneRecord(j, task[j].presetName, task[j].startedAt, t,
                                 task[j].outName, more)
InOrder(sts) ==
    \A i \in 1..Len(sts) : \A k \in i..Len(sts) :
        /\ statusRank(sts[i]) <= statusRank(sts[k])
        /\ sts[i] \in {"done", "error"} => sts[k] = sts[i]

(* C21: however the polls of a job interleave with the steps of its task,  *)
(* every GET /v1/jobs/:jobId answered 200 carries one whole record the     *)
(* program wrote for that job, the queued record of the POST handler or    *)
(* the done or error record its task ended with, member for member; and    *)
(* the statuses the successive polls of one job were answered never go     *)
(* backwards: after done or error every later poll is answered the same.   *)
C21_PollsSeeWholeRecordsInOrder ==
    /\ [](\A j \in JobIds : InOrder(seen[j]))
    /\ [][ (nreq' = nreq + 1 /\ resp'.op = "GET /v1/jobs" /\ resp'.status = 200) =>
              LET j == resp'.arg[1]
                  rec == resp'.body.payload
              IN  /\ j \in JobIds /\ Created(j)
                  /\ QueuedRecordOf(j, rec) \/ TerminalRecordOf(j, rec)
                  /\ seen'[j] = Append(seen[j], ValueOf(Field(rec, "status")))
         ]_vars

C21_Witness ==
    \E j \in JobIds :
        /\ Stylized(j) /\ task[j].polls > 0
        /\ Len(seen[j]) = 2 /\ seen[j][1] = "queued" /\ seen[j][2] \in {"done", "error"}
        /\ resp.op = "GET /v1/jobs" /\ resp.arg = <<j>>

====
